---------------------------- MODULE Spec2Model ----------------------------
(***************************************************************************)
(* RLP encoding (ethereum/rlp.rs) and the Merkle Patricia Trie node        *)
(* encoder (ethereum/frontier/trie.rs) of execution-specs-rs.              *)
(*                                                                         *)
(* Byte strings (Bytes = Box<[u8]>) are sequences of naturals < 256,       *)
(* nibble lists are sequences of naturals < 16.  Every function of the     *)
(* source is an operator; an action applies one function to an input.     *)
(***************************************************************************)
EXTENDS Integers, Sequences, FiniteSets, TLC

VARIABLES
    trie,   \* the Trie<K, V> under construction: [secured, default, data]
    call    \* the call in progress: [fn, args, done, ret]

vars == <<trie, call>>

-----------------------------------------------------------------------------
(* Bounds of the model.                                                    *)

MaxLen      == 57    \* short byte strings have every length 0..MaxLen
LongLen     == 256   \* long byte strings have length LongLen-1..LongLen+1
MaxSmall    == 129   \* unsigned integers 0..MaxSmall are all tried
MaxItems    == 2     \* longest sequence handed to encode
MaxNibbles  == 4     \* longest nibble list handed to nibble_list_to_compact

-----------------------------------------------------------------------------
(* base_types: big-endian representations.                                 *)

RECURSIVE to_be_bytes(_, _)
\* uN::to_be_bytes: the `width` bytes of n, most significant first.
to_be_bytes(n, width) ==
    IF width = 0 THEN <<>>
    ELSE Append(to_be_bytes(n \div 256, width - 1), n % 256)

RECURSIVE to_bytes_be(_)
\* BigUint::to_bytes_be: no leading zero byte, except that zero is <<0>>.
to_bytes_be(n) ==
    IF n < 256 THEN <<n>>
    ELSE Append(to_bytes_be(n \div 256), n % 256)

RECURSIVE strip_leading_zeros(_)
strip_leading_zeros(bytes) ==
    IF bytes = <<>> \/ bytes[1] # 0 THEN bytes
    ELSE strip_leading_zeros(Tail(bytes))

UsizeBytes == 8   \* usize::to_be_bytes on a 64-bit target

-----------------------------------------------------------------------------
(* rlp.rs                                                                  *)

\* encode_bytes with the short form kept up to and including 56 bytes.
encode_bytes_short56(raw_bytes) ==
    LET len_raw_data == Len(raw_bytes)
    IN  IF len_raw_data = 1 /\ raw_bytes[1] < 128
        THEN raw_bytes
        ELSE IF len_raw_data <= 56
        THEN <<(128 + len_raw_data) % 256>> \o raw_bytes
        ELSE LET be_bytes == to_be_bytes(len_raw_data, UsizeBytes)
                 len_raw_data_as_be == strip_leading_zeros(be_bytes)
             IN  <<(183 + Len(len_raw_data_as_be)) % 256>>
                     \o len_raw_data_as_be \o raw_bytes

\* encode_bytes with the single byte 128 taken for a byte below 0x80.
encode_bytes_single128(raw_bytes) ==
    LET len_raw_data == Len(raw_bytes)
    IN  IF len_raw_data = 1 /\ raw_bytes[1] <= 128
        THEN raw_bytes
        ELSE IF len_raw_data < 56
        THEN <<(128 + len_raw_data) % 256>> \o raw_bytes
        ELSE LET be_bytes == to_be_bytes(len_raw_data, UsizeBytes)
                 len_raw_data_as_be == strip_leading_zeros(be_bytes)
             IN  <<(183 + Len(len_raw_data_as_be)) % 256>>
                     \o len_raw_data_as_be \o raw_bytes

encode_bytes(raw_bytes) ==
    LET len_raw_data == Len(raw_bytes)
    IN  IF len_raw_data = 1 /\ raw_bytes[1] < 128
        THEN raw_bytes
        ELSE IF len_raw_data < 56
        THEN <<(128 + len_raw_data) % 256>> \o raw_bytes
        ELSE LET be_bytes == to_be_bytes(len_raw_data, UsizeBytes)
                 len_raw_data_as_be == strip_leading_zeros(be_bytes)
             IN  <<(183 + Len(len_raw_data_as_be)) % 256>>
                     \o len_raw_data_as_be \o raw_bytes

\* encode_sequence with the long form on the byte-string base 0xB7.
encode_sequence_base183(joined_encodings) ==
    LET len_joined_encodings == Len(joined_encodings)
    IN  IF len_joined_encodings < 56
        THEN <<(192 + len_joined_encodings) % 256>> \o joined_encodings
        ELSE LET be_bytes == to_be_bytes(len_joined_encodings, UsizeBytes)
                 len_joined_encodings_as_be == strip_leading_zeros(be_bytes)
             IN  <<(183 + Len(len_joined_encodings_as_be)) % 256>>
                     \o len_joined_encodings_as_be \o joined_encodings

encode_sequence(joined_encodings) ==
    LET len_joined_encodings == Len(joined_encodings)
    IN  IF len_joined_encodings < 56
        THEN <<(192 + len_joined_encodings) % 256>> \o joined_encodings
        ELSE LET be_bytes == to_be_bytes(len_joined_encodings, UsizeBytes)
                 len_joined_encodings_as_be == strip_leading_zeros(be_bytes)
             IN  <<(247 + Len(len_joined_encodings_as_be)) % 256>>
                     \o len_joined_encodings_as_be \o joined_encodings

(* The values the RLP trait is implemented for, as [type, v] records.      *)
BytesItem(b) == [type |-> "Bytes", v |-> b]
UintItem(n)  == [type |-> "Uint",  v |-> n]
U64Item(n)   == [type |-> "U64",   v |-> n]
U32Item(n)   == [type |-> "U32",   v |-> n]
BoolItem(b)  == [type |-> "bool",  v |-> b]
VecItem(s)   == [type |-> "Vec",   v |-> s]
UnitItem     == [type |-> "unit",  v |-> <<>>]

RECURSIVE encode(_)
RECURSIVE joined_encodings(_)

\* The loop of the sequence impls: the items' encodings, in order.
joined_encodings(items) ==
    IF items = <<>> THEN <<>>
    ELSE encode(Head(items)) \o joined_encodings(Tail(items))

\* encode with the fixed-width integers left unstripped.
encode_unstripped(raw_data) ==
    CASE raw_data.type = "Bytes" -> encode_bytes(raw_data.v)
      [] raw_data.type = "Uint"  ->
             encode_bytes(strip_leading_zeros(to_bytes_be(raw_data.v)))
      [] raw_data.type = "U64"   -> encode_bytes(to_be_bytes(raw_data.v, 8))
      [] raw_data.type = "U32"   -> encode_bytes(to_be_bytes(raw_data.v, 4))
      [] raw_data.type = "bool"  ->
             IF raw_data.v THEN encode_bytes(<<1>>) ELSE encode_bytes(<<>>)
      [] raw_data.type = "Vec"   ->
             encode_sequence(joined_encodings(raw_data.v))
      [] raw_data.type = "unit"  -> encode_sequence(<<>>)

\* RLP::encode, dispatched on the type of the value as the impls are.
encode(raw_data) ==
    CASE raw_data.type = "Bytes" -> encode_bytes(raw_data.v)
      [] raw_data.type = "Uint"  ->
             encode_bytes(strip_leading_zeros(to_bytes_be(raw_data.v)))
      [] raw_data.type = "U64"   ->
             encode_bytes(strip_leading_zeros(to_be_bytes(raw_data.v, 8)))
      [] raw_data.type = "U32"   ->
             encode_bytes(strip_leading_zeros(to_be_bytes(raw_data.v, 4)))
      [] raw_data.type = "bool"  ->
             IF raw_data.v THEN encode_bytes(<<1>>) ELSE encode_bytes(<<>>)
      [] raw_data.type = "Vec"   ->
             encode_sequence(joined_encodings(raw_data.v))
      [] raw_data.type = "unit"  -> encode_sequence(<<>>)

-----------------------------------------------------------------------------
(* fork_types::keccak256: Keccak-256 (rate 136 bytes, padding 0x01..0x80)  *)
(* on a state of 1600 bits; bit z of lane (x, y) is A[64*(x + 5*y) + z + 1]. *)

Force(f) == f \o <<>>   \* the sequence f, evaluated once

Rate == 136

Rho ==
    << 0,  1, 62, 28, 27,
      36, 44,  6, 55, 20,
       3, 10, 43, 25, 39,
      41, 45, 15, 21,  8,
      18,  2, 61, 56, 14 >>

\* The bits set in each of the 24 round constants.
RC ==
    << {0}, {1, 7, 15}, {1, 3, 7, 15, 63}, {15, 31, 63}, {0, 1, 3, 7, 15},
       {0, 31}, {0, 7, 15, 31, 63}, {0, 3, 15, 63}, {1, 3, 7}, {3, 7},
       {0, 3, 15, 31}, {1, 3, 31}, {0, 1, 3, 7, 15, 31}, {0, 1, 3, 7, 63},
       {0, 3, 7, 15, 63}, {0, 1, 15, 63}, {1, 15, 63}, {7, 63}, {1, 3, 15},
       {1, 3, 31, 63}, {0, 7, 15, 31, 63}, {7, 15, 63}, {0, 31},
       {3, 15, 31, 63} >>

\* One round: theta (C, D), rho and pi (B), chi and iota (the result).
KeccakRound(A, rnd) ==
    LET C == Force([k \in 1..320 |->
                (A[k] + A[k + 320] + A[k + 640] + A[k + 960] + A[k + 1280]) % 2])
        D == Force([k \in 1..320 |->
                LET x == (k - 1) \div 64
                    z == (k - 1) % 64
                IN  (C[64 * ((x + 4) % 5) + z + 1]
                       + C[64 * ((x + 1) % 5) + ((z + 63) % 64) + 1]) % 2])
        B == Force([k \in 1..1600 |->
                LET l  == (k - 1) \div 64
                    z  == (k - 1) % 64
                    x  == ((l % 5) + 3 * (l \div 5)) % 5
                    y  == l % 5
                    zz == (z + 64 - Rho[x + 5 * y + 1]) % 64
                IN  (A[64 * (x + 5 * y) + zz + 1] + D[64 * x + zz + 1]) % 2])
    IN  Force([k \in 1..1600 |->
                LET l  == (k - 1) \div 64
                    z  == (k - 1) % 64
                    x  == l % 5
                    y  == l \div 5
                    b1 == B[64 * (((x + 1) % 5) + 5 * y) + z + 1]
                    b2 == B[64 * (((x + 2) % 5) + 5 * y) + z + 1]
                IN  (B[k] + (1 - b1) * b2
                       + (IF l = 0 /\ z \in RC[rnd] THEN 1 ELSE 0)) % 2])

RECURSIVE KeccakF(_, _)
\* Rounds rnd..24 on A; each round is evaluated before the next is begun.
KeccakF(A, rnd) ==
    IF rnd > 24 THEN A
    ELSE LET A1 == KeccakRound(A, rnd)
         IN  IF Len(A1) = 1600 THEN KeccakF(A1, rnd + 1) ELSE A1

KeccakPad(msg) ==
    LET n == Rate - (Len(msg) % Rate)
    IN  msg \o [i \in 1..n |->
                  (IF i = 1 THEN 1 ELSE 0) + (IF i = n THEN 128 ELSE 0)]

RECURSIVE KeccakAbsorb(_, _)
KeccakAbsorb(A, m) ==
    IF m = <<>> THEN A
    ELSE LET X == Force([k \in 1..1600 |->
                    IF k <= 8 * Rate
                    THEN (A[k] + ((m[((k - 1) \div 8) + 1]
                                     \div (2 ^ ((k - 1) % 8))) % 2)) % 2
                    ELSE A[k]])
         IN  KeccakAbsorb(KeccakF(X, 1), SubSeq(m, Rate + 1, Len(m)))

keccak256(data) ==
    LET A == KeccakAbsorb(Force([k \in 1..1600 |-> 0]), KeccakPad(data))
    IN  Force([k \in 1..32 |->
            A[8 * k - 7] + 2 * A[8 * k - 6] + 4 * A[8 * k - 5]
              + 8 * A[8 * k - 4] + 16 * A[8 * k - 3] + 32 * A[8 * k - 2]
              + 64 * A[8 * k - 1] + 128 * A[8 * k]])

-----------------------------------------------------------------------------
(* trie.rs                                                                 *)

\* hex!("56e81f171bcc55a6ff8345e692c0f86e5b48e01b996cadc001622fb5e363b421")
EMPTY_TRIE_ROOT ==
    << 86, 232,  31,  23,  27, 204,  85, 166, 255, 131,  69, 230, 146, 192,
      248, 110,  91,  72, 224,  27, 153, 108, 173, 192,   1,  98,  47, 181,
      227,  99, 180,  33 >>

(* InternalNode<Bytes>: the four variants.                                 *)
Null == [kind |-> "Null"]
LeafNode(rest_of_key, value) ==
    [kind |-> "LeafNode", rest_of_key |-> rest_of_key, value |-> value]
ExtensionNode(key_segment, subnode) ==
    [kind |-> "ExtensionNode", key_segment |-> key_segment, subnode |-> subnode]
BranchNode(subnodes, value) ==
    [kind |-> "BranchNode", subnodes |-> subnodes, value |-> value]

RECURSIVE compact_pairs(_, _)
\* The loops `for i in (from..x.len()).step_by(2)`: 16 * x[i] + x[i + 1].
compact_pairs(x, i) ==
    IF i >= Len(x) THEN <<>>
    ELSE <<(16 * x[i + 1] + x[i + 2]) % 256>> \o compact_pairs(x, i + 2)

as_u8(b) == IF b THEN 1 ELSE 0

\* nibble_list_to_compact without the parity flag of an odd length.
nibble_list_to_compact_no_parity(x, is_leaf) ==
    IF Len(x) % 2 = 0
    THEN <<(16 * 2 * as_u8(is_leaf)) % 256>> \o compact_pairs(x, 0)
    ELSE <<(16 * 2 * as_u8(is_leaf) + x[1]) % 256>> \o compact_pairs(x, 1)

nibble_list_to_compact(x, is_leaf) ==
    IF Len(x) % 2 = 0
    THEN <<(16 * 2 * as_u8(is_leaf)) % 256>> \o compact_pairs(x, 0)
    ELSE <<(16 * 2 * as_u8(is_leaf) + 1 + x[1]) % 256>> \o compact_pairs(x, 1)

HashThreshold == 32

RECURSIVE encode_internal_node(_)
RECURSIVE encodes(_)
RECURSIVE subnodes_encodes(_)

\* The loop over a branch's subnodes: each result, encoded as a byte string.
subnodes_encodes(subnodes) ==
    IF subnodes = <<>> THEN <<>>
    ELSE encode_bytes(encode_internal_node(Head(subnodes)))
             \o subnodes_encodes(Tail(subnodes))

\* The buffer `encodes` after the match on the node.
encodes(node) ==
    CASE node.kind = "LeafNode" ->
             encode_bytes(nibble_list_to_compact(node.rest_of_key, TRUE))
                 \o encode_bytes(node.value)
      [] node.kind = "ExtensionNode" ->
             encode_bytes(nibble_list_to_compact(node.key_segment, FALSE))
                 \o encode_bytes(encode_internal_node(node.subnode))
      [] node.kind = "BranchNode" ->
             subnodes_encodes(node.subnodes) \o encode_bytes(node.value)
      [] node.kind = "Null" -> encode_bytes(<<>>)   \* [].encode(): b""

\* `encoded`: the sequence wrapped around the buffer.
encoded(node) == encode_sequence(encodes(node))

\* The last statement with 32 bytes still returned as they are.
hash_if_longer(bytes) ==
    IF Len(bytes) <= HashThreshold THEN bytes ELSE keccak256(bytes)

\* The last statement: the bytes themselves, or their digest.
hash_if_long(bytes) ==
    IF Len(bytes) < HashThreshold THEN bytes ELSE keccak256(bytes)

encode_internal_node(node) == hash_if_long(encoded(node))

-----------------------------------------------------------------------------
(* trie.rs: the Trie and its root.  Trie<Bytes, Bytes>: the data map is a  *)
(* function from keys to values, V::default() is the empty byte string.    *)

EmptyMap == [k \in {} |-> <<>>]

Trie_new(secured) ==
    [secured |-> secured, default |-> <<>>, data |-> EmptyMap]

\* encode_node for a Bytes node: the node itself (the body is a stub).
encode_node(node) == node

RECURSIVE bytes_to_nibble_list(_)
\* Two nibbles a byte: `byte & 240 >> 4`, then `byte & 15`.  As written the
\* shift binds tighter than the mask, so the first is byte & (240 >> 4).
bytes_to_nibble_list(bytes_) ==
    IF bytes_ = <<>> THEN <<>>
    ELSE <<Head(bytes_) % 16, Head(bytes_) % 16>>
             \o bytes_to_nibble_list(Tail(bytes_))

RECURSIVE common_prefix_length(_, _)
common_prefix_length(a, b) ==
    IF a = <<>> \/ b = <<>> \/ a[1] # b[1] THEN 0
    ELSE 1 + common_prefix_length(Tail(a), Tail(b))

\* key[level..]
from_level(key, level) == SubSeq(key, level + 1, Len(key))

\* trie_set with the default value stored like any other.
trie_set_store_default(t, key, value) ==
    [t EXCEPT !.data = [k \in DOMAIN t.data \cup {key} |->
                            IF k = key THEN value ELSE t.data[k]]]

trie_set(t, key, value) ==
    IF value = t.default
    THEN IF key \in DOMAIN t.data
         THEN [t EXCEPT !.data = [k \in DOMAIN t.data \ {key} |-> t.data[k]]]
         ELSE t
    ELSE [t EXCEPT !.data = [k \in DOMAIN t.data \cup {key} |->
                                 IF k = key THEN value ELSE t.data[k]]]

trie_get(t, key) == IF key \in DOMAIN t.data THEN t.data[key] ELSE t.default

(* A map is iterated in an order its contents do not fix: an iteration    *)
(* order of the keys S is a sequence that holds each of them once.         *)
Orders(S) ==
    {order \in [1..Cardinality(S) -> S] :
        \A i, j \in 1..Cardinality(S) : order[i] = order[j] => i = j}

\* The places of the keys of S in the order, first to last.
Places(order, S) == {i \in 1..Len(order) : order[i] \in S}

SetMin(S) == CHOOSE m \in S : \A n \in S : m <= n

SetMax(S) == CHOOSE m \in S : \A n \in S : m >= n

\* The map `mapped`: every entry of the trie, in the order the data map is
\* iterated, written under the nibble list of its key (hashed if secured);
\* an entry written later replaces one written earlier under the same list.
prepare_trie(t, order) ==
    LET key(preimage) == IF t.secured THEN keccak256(preimage) ELSE preimage
        nibbles == Force([i \in 1..Len(order) |->
                              bytes_to_nibble_list(key(order[i]))])
        keys == {nibbles[i] : i \in 1..Len(order)}
    IN  [k \in keys |->
            encode_node(t.data[order[SetMax({i \in 1..Len(order) :
                                                 nibbles[i] = k})]])]

\* patricialize_call with every bucket of a Branch patricialized at the
\* level of the Branch itself.
patricialize_call_same_level(obj, level, keys_order) ==
    IF DOMAIN obj = {} THEN [kind |-> "Null", calls |-> <<>>]
    ELSE
    LET places == Places(keys_order, DOMAIN obj)
        arbitrary_key == keys_order[SetMin(places)]
        substring == from_level(arbitrary_key, level)
        prefix_length ==
            SetMin({Len(substring)} \cup
                   {common_prefix_length(substring, from_level(key, level)) :
                        key \in DOMAIN obj})
        branches(nibble) ==
            [key \in {k \in DOMAIN obj : Len(k) # level /\ k[level + 1] = nibble}
                |-> obj[key]]
        ending == {i \in places : Len(keys_order[i]) = level}
        value == IF ending = {} THEN <<>> ELSE obj[keys_order[SetMax(ending)]]
    IN  IF Cardinality(DOMAIN obj) = 1
        THEN [kind |-> "LeafNode", rest_of_key |-> substring,
              value |-> obj[arbitrary_key], calls |-> <<>>]
        ELSE IF prefix_length > 0
        THEN [kind |-> "ExtensionNode",
              key_segment |-> SubSeq(arbitrary_key, level + 1,
                                     level + prefix_length),
              calls |-> <<[obj |-> obj, level |-> level + prefix_length]>>]
        ELSE [kind |-> "BranchNode", value |-> value,
              calls |-> [i \in 1..16 |->
                            [obj |-> branches(i - 1), level |-> level]]]

\* patricialize_call without the case of a map of one entry.
patricialize_call_no_leaf(obj, level, keys_order) ==
    IF DOMAIN obj = {} THEN [kind |-> "Null", calls |-> <<>>]
    ELSE
    LET places == Places(keys_order, DOMAIN obj)
        arbitrary_key == keys_order[SetMin(places)]
        substring == from_level(arbitrary_key, level)
        prefix_length ==
            SetMin({Len(substring)} \cup
                   {common_prefix_length(substring, from_level(key, level)) :
                        key \in DOMAIN obj})
        branches(nibble) ==
            [key \in {k \in DOMAIN obj : Len(k) # level /\ k[level + 1] = nibble}
                |-> obj[key]]
        ending == {i \in places : Len(keys_order[i]) = level}
        value == IF ending = {} THEN <<>> ELSE obj[keys_order[SetMax(ending)]]
    IN  IF prefix_length > 0
        THEN [kind |-> "ExtensionNode",
              key_segment |-> SubSeq(arbitrary_key, level + 1,
                                     level + prefix_length),
              calls |-> <<[obj |-> obj, level |-> level + prefix_length]>>]
        ELSE [kind |-> "BranchNode", value |-> value,
              calls |-> [i \in 1..16 |->
                            [obj |-> branches(i - 1), level |-> level + 1]]]

\* One call of patricialize, its recursive calls not yet made: the kind of
\* node it returns, and the maps and levels it recurses on.  keys_order is
\* the order the map, and every map cut from it, is iterated in.
patricialize_call(obj, level, keys_order) ==
    IF DOMAIN obj = {} THEN [kind |-> "Null", calls |-> <<>>]
    ELSE
    LET places == Places(keys_order, DOMAIN obj)
        arbitrary_key == keys_order[SetMin(places)]
        substring == from_level(arbitrary_key, level)
        prefix_length ==
            SetMin({Len(substring)} \cup
                   {common_prefix_length(substring, from_level(key, level)) :
                        key \in DOMAIN obj})
        branches(nibble) ==
            [key \in {k \in DOMAIN obj : Len(k) # level /\ k[level + 1] = nibble}
                |-> obj[key]]
        ending == {i \in places : Len(keys_order[i]) = level}
        value == IF ending = {} THEN <<>> ELSE obj[keys_order[SetMax(ending)]]
    IN  IF Cardinality(DOMAIN obj) = 1
        THEN [kind |-> "LeafNode", rest_of_key |-> substring,
              value |-> obj[arbitrary_key], calls |-> <<>>]
        ELSE IF prefix_length > 0
        THEN [kind |-> "ExtensionNode",
              key_segment |-> SubSeq(arbitrary_key, level + 1,
                                     level + prefix_length),
              calls |-> <<[obj |-> obj, level |-> level + prefix_length]>>]
        ELSE [kind |-> "BranchNode", value |-> value,
              calls |-> [i \in 1..16 |->
                            [obj |-> branches(i - 1), level |-> level + 1]]]

RECURSIVE patricialize(_, _, _)
\* patricialize: the node of the call, over the nodes of its recursive calls.
patricialize(obj, level, keys_order) ==
    LET c == patricialize_call(obj, level, keys_order)
        sub(i) == patricialize(c.calls[i].obj, c.calls[i].level, keys_order)
    IN  CASE c.kind = "Null" -> Null
          [] c.kind = "LeafNode" -> LeafNode(c.rest_of_key, c.value)
          [] c.kind = "ExtensionNode" -> ExtensionNode(c.key_segment, sub(1))
          [] c.kind = "BranchNode" ->
                 BranchNode([i \in 1..16 |-> sub(i)], c.value)

\* root, of the map prepare_trie makes of the trie.
root_of(obj, keys_order) ==
    LET root_node == encode_internal_node(patricialize(obj, 0, keys_order))
    IN  IF Len(encode_bytes(root_node)) < 32
        THEN keccak256(encode_bytes(root_node))
        ELSE root_node

root(t, order, keys_order) == root_of(prepare_trie(t, order), keys_order)

-----------------------------------------------------------------------------
(* The inputs the functions are applied to.                                *)

Fill(n, first, rest) == [i \in 1..n |-> IF i = 1 THEN first ELSE rest]

Lens == (0..MaxLen) \cup {LongLen - 1, LongLen, LongLen + 1}

ByteStrings ==
    {Fill(n, first, rest) : n \in Lens, first \in {0, 127, 128, 255},
                            rest \in {0, 200}}

Cat == <<99, 97, 116>>
Dog == <<100, 111, 103>>

UintValues ==
    (0..MaxSmall) \cup {255, 256, 1024, 65535, 65536, 16777216, 2147483647}

UintItems ==
    {UintItem(n) : n \in UintValues} \cup {U64Item(n) : n \in UintValues}
        \cup {U32Item(n) : n \in UintValues}

\* What a sequence may hold: byte strings, integers, and sequences of them.
Elements ==
    {BytesItem(Cat), BytesItem(Dog), BytesItem(<<>>), BytesItem(<<15>>),
     BytesItem(Fill(30, 200, 200)), UintItem(1024), BoolItem(TRUE),
     UnitItem, VecItem(<<BytesItem(Cat)>>)}

RECURSIVE SeqsUpTo(_, _)
\* The sequences of at most n elements of S.
SeqsUpTo(S, n) ==
    IF n = 0 THEN {<<>>}
    ELSE LET shorter == SeqsUpTo(S, n - 1)
         IN  shorter \cup {Append(s, e) : s \in shorter, e \in S}

VecItems == {VecItem(s) : s \in SeqsUpTo(Elements, MaxItems)}

EncodeInputs ==
    UintItems \cup VecItems \cup {UnitItem, BoolItem(TRUE), BoolItem(FALSE)}

NibbleLists == SeqsUpTo({0, 1, 8, 15}, MaxNibbles)

NodeValues == {<<>>, <<97>>, Fill(28, 200, 200), Fill(29, 200, 200)}

Leaves ==
    {LeafNode(k, v) : k \in {<<>>, <<1>>, <<1, 2>>}, v \in NodeValues}

SmallLeaves == {LeafNode(k, <<97>>) : k \in {<<>>, <<1>>}}

OneChild(slot, node) == [i \in 1..16 |-> IF i = slot THEN node ELSE Null]

Branches ==
    {BranchNode(s, v) :
        s \in {OneChild(0, Null)}
                \cup {OneChild(slot, n) : slot \in {1, 16}, n \in SmallLeaves}
                \cup {[i \in 1..16 |-> IF i \in {2, 3} THEN n ELSE Null] :
                          n \in SmallLeaves},
        v \in {<<>>, <<97>>}}

Extensions ==
    {ExtensionNode(k, n) : k \in {<<1>>, <<1, 2>>},
                           n \in Leaves \cup {BranchNode(OneChild(1, LeafNode(<<>>, <<97>>)), <<97>>)}}

Nodes == {Null} \cup Leaves \cup Extensions \cup Branches

-----------------------------------------------------------------------------
(* The state machine: a trie is constructed, then one function is called.  *)

Idle == [fn |-> "idle", args |-> <<>>, ret |-> <<>>]

Init ==
    /\ \E secured \in BOOLEAN : trie = Trie_new(secured)
    /\ call = Idle

EncodeBytes ==
    /\ call.fn = "idle"
    /\ \E raw_bytes \in ByteStrings :
           call' = [fn |-> "encode_bytes", args |-> raw_bytes,
                    ret |-> encode_bytes(raw_bytes)]
    /\ UNCHANGED trie

Encode ==
    /\ call.fn = "idle"
    /\ \E raw_data \in EncodeInputs :
           call' = [fn |-> "encode", args |-> raw_data,
                    ret |-> encode(raw_data)]
    /\ UNCHANGED trie

NibbleListToCompact ==
    /\ call.fn = "idle"
    /\ \E x \in NibbleLists, is_leaf \in BOOLEAN :
           call' = [fn |-> "nibble_list_to_compact",
                    args |-> [x |-> x, is_leaf |-> is_leaf],
                    ret |-> nibble_list_to_compact(x, is_leaf)]
    /\ UNCHANGED trie

EncodeInternalNode ==
    /\ call.fn = "idle"
    /\ \E node \in Nodes :
           call' = [fn |-> "encode_internal_node", args |-> node,
                    ret |-> encode_internal_node(node)]
    /\ UNCHANGED trie

Root ==
    /\ call.fn = "idle"
    /\ \E order \in Orders(DOMAIN trie.data) :
           LET obj == prepare_trie(trie, order)
           IN  \E keys_order \in Orders(DOMAIN obj) :
                   call' = [fn |-> "root",
                            args |-> [order |-> order, keys_order |-> keys_order],
                            ret |-> root_of(obj, keys_order)]
    /\ UNCHANGED trie

Next ==
    \/ EncodeBytes
    \/ Encode
    \/ NibbleListToCompact
    \/ EncodeInternalNode
    \/ Root

Spec == Init /\ [][Next]_vars

-----------------------------------------------------------------------------
(* The trie in use: entries are set and reset, the root is computed, and   *)
(* each call returns before the next one is made.                          *)

\* Two keys whose bytes differ in the high nibble only.
TrieKeys == {<<18>>, <<34>>}

TrieValues == {<<>>, <<97>>, <<98>>}

TrieSet ==
    /\ call.fn = "idle"
    /\ \E key \in TrieKeys, value \in TrieValues :
           /\ trie' = trie_set(trie, key, value)
           /\ call' = [fn |-> "trie_set",
                       args |-> [key |-> key, value |-> value], ret |-> <<>>]

TrieGet ==
    /\ call.fn = "idle"
    /\ \E key \in TrieKeys :
           call' = [fn |-> "trie_get", args |-> [key |-> key],
                    ret |-> trie_get(trie, key)]
    /\ UNCHANGED trie

Return ==
    /\ call.fn # "idle"
    /\ call' = Idle
    /\ UNCHANGED trie

NextTrie == TrieSet \/ TrieGet \/ Root \/ Return

SpecTrie == Init /\ [][NextTrie]_vars

-----------------------------------------------------------------------------
(* patricialize, call by call: the stack holds the calls not yet made, each *)
(* with its depth in the recursion.                                         *)

MaxKeyLen == 2
MaxEntries == 2

NibbleKeys == SeqsUpTo({0, 15}, MaxKeyLen)

\* A map of unique nibble keys; the value of a key names the key.
NibbleMaps ==
    {[key \in keys |-> <<97>> \o key] :
        keys \in {S \in SUBSET NibbleKeys : Cardinality(S) <= MaxEntries}}

PatricializeEnter ==
    /\ call.fn = "idle"
    /\ \E obj \in NibbleMaps :
           \E keys_order \in Orders(DOMAIN obj) :
               call' = [fn |-> "patricialize",
                        args |-> [obj |-> obj, level |-> 0,
                                  keys_order |-> keys_order],
                        stack |-> <<[obj |-> obj, level |-> 0, depth |-> 1]>>,
                        made |-> <<>>, returned |-> FALSE, ret |-> <<>>]
    /\ UNCHANGED trie

\* The call on top of the stack is made: its own recursive calls replace it,
\* and `made` keeps the call and the kind of node it returns.
PatricializeCall ==
    /\ call.fn = "patricialize"
    /\ call.stack # <<>>
    /\ LET top == Head(call.stack)
           c == patricialize_call(top.obj, top.level, call.args.keys_order)
       IN  call' = [call EXCEPT
                        !.stack =
                            [i \in 1..Len(c.calls) |->
                                [obj |-> c.calls[i].obj,
                                 level |-> c.calls[i].level,
                                 depth |-> top.depth + 1]]
                            \o Tail(call.stack),
                        !.made = [obj |-> top.obj, level |-> top.level,
                                  node |-> c.kind]]
    /\ UNCHANGED trie

PatricializeReturn ==
    /\ call.fn = "patricialize"
    /\ call.stack = <<>>
    /\ ~call.returned
    /\ call' = [call EXCEPT !.returned = TRUE,
                            !.ret = patricialize(call.args.obj, call.args.level,
                                                 call.args.keys_order)]
    /\ UNCHANGED trie

NextPatricialize == PatricializeEnter \/ PatricializeCall \/ PatricializeReturn

\* A call that is on the stack is made: the recursion does not stop halfway.
SpecPatricialize ==
    /\ Init
    /\ [][NextPatricialize]_vars
    /\ WF_vars(PatricializeCall)

-----------------------------------------------------------------------------
(* Properties of the RLP codec.                                            *)

RECURSIVE BigEndianValue(_)
\* The number a byte string denotes, most significant byte first.
BigEndianValue(be) ==
    IF be = <<>> THEN 0
    ELSE 256 * BigEndianValue(SubSeq(be, 1, Len(be) - 1)) + be[Len(be)]

\* be is the big-endian encoding of n with no leading zero byte.
IsMinimalBigEndian(be, n) ==
    /\ be # <<>> => be[1] # 0
    /\ BigEndianValue(be) = n

RECURSIVE ByteLength(_)
\* The number of bytes of the minimal big-endian encoding of n.
ByteLength(n) == IF n = 0 THEN 0 ELSE 1 + ByteLength(n \div 256)

RECURSIVE MinimalBigEndian(_)
\* The big-endian bytes of n, none for zero.
MinimalBigEndian(n) ==
    IF n = 0 THEN <<>> ELSE Append(MinimalBigEndian(n \div 256), n % 256)

\* out is `base` + the length rule applied to payload: a one-byte prefix
\* base + len below 56 bytes, else base + 55 + len(be), then be.
HasLengthPrefix(out, base, payload) ==
    LET L == Len(payload)
    IN  IF L < 56
        THEN out = <<base + L>> \o payload
        ELSE LET n == out[1] - (base + 55)
             IN  /\ n \in 1..8
                 /\ Len(out) = 1 + n + L
                 /\ IsMinimalBigEndian(SubSeq(out, 2, 1 + n), L)
                 /\ SubSeq(out, n + 2, Len(out)) = payload

\* C1: encode_bytes(b) is b itself for a single byte below 0x80, else
\* 0x80+len(b) then b below 56 bytes, else 0xB7+len(be), be, then b, with be
\* the minimal big-endian encoding of len(b).
C1_EncodeBytesRule ==
    call.fn = "encode_bytes" =>
        LET b == call.args
        IN  IF Len(b) = 1 /\ b[1] < 128
            THEN call.ret = b
            ELSE HasLengthPrefix(call.ret, 128, b)

\* A byte string whose length needs two bytes has been encoded.
C1_Witness ==
    /\ call.fn = "encode_bytes"
    /\ Len(call.args) = LongLen
    /\ call.ret[1] = 183 + ByteLength(LongLen)
    /\ Len(call.ret) = LongLen + 1 + ByteLength(LongLen)

\* The length the encoding of a byte string of length L has when it
\* carries a prefix.
PrefixedLength(L) == L + (IF L < 56 THEN 1 ELSE 1 + ByteLength(L))

\* C2 as stated: for every byte string b, a single byte below 0x80 and the
\* empty string included, the encoding is len(b) + 1 bytes long below 56
\* bytes and len(b) + 1 + len(be(len(b))) bytes long otherwise.
C2_LengthOfEveryEncoding ==
    call.fn = "encode_bytes" => Len(call.ret) = PrefixedLength(Len(call.args))

\* C2, amended: the length is len(b) + 1, or len(b) + 1 + len(be(len(b)))
\* from 56 bytes on, for every byte string but a single byte below 0x80,
\* whose encoding is that one byte.
C2_LengthOfEncoding ==
    call.fn = "encode_bytes" =>
        LET b == call.args
        IN  Len(call.ret) = IF Len(b) = 1 /\ b[1] < 128
                            THEN 1
                            ELSE PrefixedLength(Len(b))

\* The single byte 0x80 has been encoded, in two bytes.
C2_Witness ==
    /\ call.fn = "encode_bytes"
    /\ call.args = <<128>>
    /\ Len(call.ret) = 2

\* The encodings of the first n items, laid end to end, are this long.
RECURSIVE EncodedLength(_, _)
EncodedLength(items, n) ==
    IF n = 0 THEN 0
    ELSE EncodedLength(items, n - 1) + Len(encode(items[n]))

\* payload holds the encoding of each item at the place the items before
\* it leave, and nothing more.
IsJoinedEncoding(payload, items) ==
    /\ Len(payload) = EncodedLength(items, Len(items))
    /\ \A i \in 1..Len(items) :
           SubSeq(payload, EncodedLength(items, i - 1) + 1,
                  EncodedLength(items, i)) = encode(items[i])

\* What follows the length prefix of an encoded sequence.
SequencePayload(out) ==
    SubSeq(out, (IF out[1] <= 247 THEN 1 ELSE out[1] - 246) + 1, Len(out))

\* C3: a sequence encodes as the joined encoding J of its items in order,
\* after 0xC0+len(J) below 56 bytes, else after 0xF7+len(be) and be; the
\* empty sequence and the unit tuple are 0xC0, ["cat", "dog"] is
\* C8 83 c a t 83 d o g.
C3_EncodeSequenceRule ==
    call.fn = "encode" /\ call.args.type \in {"Vec", "unit"} =>
        LET items == call.args.v
            J == SequencePayload(call.ret)
        IN  /\ IsJoinedEncoding(J, items)
            /\ HasLengthPrefix(call.ret, 192, J)
            /\ items = <<>> => call.ret = <<192>>
            /\ items = <<BytesItem(Cat), BytesItem(Dog)>> =>
                   call.ret = <<200, 131, 99, 97, 116, 131, 100, 111, 103>>

\* A sequence whose joined encoding is 56 bytes or more has been encoded.
C3_Witness ==
    /\ call.fn = "encode"
    /\ call.args.type = "Vec"
    /\ Len(call.args.v) = 2
    /\ EncodedLength(call.args.v, 2) >= 56
    /\ call.ret[1] = 248

\* C4: an unsigned integer encodes as encode_bytes of its big-endian bytes
\* without leading zeros: 0 as 0x80, 1..127 as that byte, 15 as 0F and 1024
\* as 82 04 00.
C4_EncodeUint ==
    call.fn = "encode" /\ call.args.type \in {"Uint", "U64", "U32"} =>
        LET n == call.args.v
        IN  /\ call.ret = encode_bytes(MinimalBigEndian(n))
            /\ n = 0 => call.ret = <<128>>
            /\ n \in 1..127 => call.ret = <<n>>
            /\ n = 15 => call.ret = <<15>>
            /\ n = 1024 => call.ret = <<130, 4, 0>>

\* The U64 1024 has been encoded, its six leading zero bytes removed.
C4_Witness ==
    /\ call.fn = "encode"
    /\ call.args = U64Item(1024)
    /\ call.ret = <<130, 4, 0>>

-----------------------------------------------------------------------------
(* Properties of the nibble utilities.                                     *)

\* C5: the first byte of nibble_list_to_compact(x, is_leaf) has the high
\* nibble 2*is_leaf + parity, parity being 1 iff len(x) is odd, and the low
\* nibble x[0] for an odd len(x), 0 for an even one; the other nibbles are
\* packed two a byte, high nibble first.
C5_CompactLayout ==
    call.fn = "nibble_list_to_compact" =>
        LET x == call.args.x
            parity == Len(x) % 2
            out == call.ret
        IN  /\ out[1] \div 16 = 2 * as_u8(call.args.is_leaf) + parity
            /\ out[1] % 16 = IF parity = 1 THEN x[1] ELSE 0
            /\ Len(out) = 1 + (Len(x) \div 2)
            /\ \A j \in 1..(Len(x) \div 2) :
                   out[j + 1] = 16 * x[parity + 2 * j - 1] + x[parity + 2 * j]

RECURSIVE unpack(_)
\* Two nibbles for each byte, high nibble first.
unpack(bytes) ==
    IF bytes = <<>> THEN <<>>
    ELSE <<Head(bytes) \div 16, Head(bytes) % 16>> \o unpack(Tail(bytes))

\* The inverse of the compact form: is_leaf from bit 1 and the parity from
\* bit 0 of the first byte's high nibble, the first byte's low nibble the
\* first nibble when the parity is odd, two nibbles from every other byte.
uncompact(compact) ==
    LET flag == compact[1] \div 16
        rest == unpack(Tail(compact))
    IN  [x |-> IF flag % 2 = 1 THEN <<compact[1] % 16>> \o rest ELSE rest,
         is_leaf |-> (flag \div 2) % 2 = 1]

\* C6: uncompact(nibble_list_to_compact(x, is_leaf)) is (x, is_leaf), for
\* nibble lists of even and of odd length.
C6_CompactRoundTrip ==
    call.fn = "nibble_list_to_compact" => uncompact(call.ret) = call.args

-----------------------------------------------------------------------------
(* Properties of the node encoder.                                         *)

\* The length of the RLP item that begins the byte string.
ItemLength(bytes) ==
    LET p == bytes[1]
    IN  IF p < 128 THEN 1
        ELSE IF p <= 183 THEN 1 + (p - 128)
        ELSE IF p < 192
        THEN 1 + (p - 183) + BigEndianValue(SubSeq(bytes, 2, 1 + (p - 183)))
        ELSE IF p <= 247 THEN 1 + (p - 192)
        ELSE 1 + (p - 247) + BigEndianValue(SubSeq(bytes, 2, 1 + (p - 247)))

RECURSIVE Items(_)
\* The RLP items a joined encoding is made of, in order.
Items(bytes) ==
    IF bytes = <<>> THEN <<>>
    ELSE LET n == ItemLength(bytes)
         IN  <<SubSeq(bytes, 1, n)>> \o Items(SubSeq(bytes, n + 1, Len(bytes)))

\* C7: the Null node encodes as the RLP of the empty byte string, the byte
\* 0x80, and a Null subnode of a branch contributes exactly the item 0x80
\* to the joined encoding of the branch.
C7_NullEncoding ==
    call.fn = "encode_internal_node" =>
        /\ call.args = Null => call.ret = <<128>>
        /\ call.args.kind = "BranchNode" =>
               \A i \in 1..Len(call.args.subnodes) :
                   call.args.subnodes[i] = Null =>
                       Items(encodes(call.args))[i] = <<128>>

\* C8: the result is the node's RLP bytes when they are shorter than 32
\* bytes and their 32-byte digest otherwise (31 bytes are returned, 32 are
\* hashed), so it is never longer than 32 bytes.
C8_Threshold ==
    call.fn = "encode_internal_node" =>
        LET rlp == encoded(call.args)
        IN  /\ Len(call.ret) <= 32
            /\ Len(rlp) < 32 => call.ret = rlp
            /\ Len(rlp) >= 32 => /\ Len(call.ret) = 32
                                 /\ call.ret = keccak256(rlp)
                                 /\ call.ret # rlp

\* A node whose RLP is exactly 32 bytes long has been encoded, to a digest.
C8_Witness ==
    /\ call.fn = "encode_internal_node"
    /\ Len(encoded(call.args)) = 32
    /\ call.ret = keccak256(encoded(call.args))

\* A node whose RLP is exactly 31 bytes long has been encoded, to itself.
C8_WitnessInline ==
    /\ call.fn = "encode_internal_node"
    /\ Len(encoded(call.args)) = 31
    /\ call.ret = encoded(call.args)

\* C9: a subnode whose RLP bytes are shorter than 32 bytes is the item of
\* its parent's payload as it is, with no length prefix put before it; the
\* payload of an extension is encode(compact(key_segment, false)) followed
\* by the subnode's RLP bytes.
C9_InlineEmbedding ==
    call.fn = "encode_internal_node" =>
        /\ call.args.kind = "ExtensionNode"
             /\ Len(encoded(call.args.subnode)) < 32 =>
               encodes(call.args) =
                   encode_bytes(nibble_list_to_compact(call.args.key_segment,
                                                       FALSE))
                       \o encoded(call.args.subnode)
        /\ call.args.kind = "BranchNode" =>
               \A i \in 1..Len(call.args.subnodes) :
                   Len(encoded(call.args.subnodes[i])) < 32 =>
                       Items(encodes(call.args))[i] =
                           encoded(call.args.subnodes[i])

-----------------------------------------------------------------------------
(* Properties of the trie.                                                 *)

\* C10: the root of a trie with no entries, secured or not, is
\* EMPTY_TRIE_ROOT, the digest of the encoding 0x80 of the empty byte string.
C10_EmptyTrieRoot ==
    call.fn = "root" /\ DOMAIN trie.data = {} =>
        /\ call.ret = EMPTY_TRIE_ROOT
        /\ EMPTY_TRIE_ROOT = keccak256(<<128>>)


-----------------------------------------------------------------------------
(* Properties of the trie's data map.                                      *)

-----------------------------------------------------------------------------
(* Properties of the root and of patricialize.                             *)

\* C12: the root is a function of the contents of the data map: whatever
\* calls of trie_set led to the contents, and in whatever order the data map
\* and the map of nibble keys are iterated (so whichever key is picked as
\* arbitrary_key), root returns the value it has returned.
C12_RootOfContents ==
    call.fn = "root" =>
        \A order \in Orders(DOMAIN trie.data) :
            LET obj == prepare_trie(trie, order)
            IN  \A keys_order \in Orders(DOMAIN obj) :
                    root_of(obj, keys_order) = call.ret



\* patricialize returns the same tree whatever the order its map is iterated
\* in, so whichever key is picked as arbitrary_key.
PatricializeAnyOrder ==
    call.fn = "patricialize" /\ call.returned =>
        \A keys_order \in Orders(DOMAIN call.args.obj) :
            patricialize(call.args.obj, call.args.level, keys_order) = call.ret

RECURSIVE BranchesOf(_)
\* The Branch nodes of a tree.
BranchesOf(node) ==
    CASE node.kind = "BranchNode" ->
             {node} \cup UNION {BranchesOf(node.subnodes[i]) : i \in 1..16}
      [] node.kind = "ExtensionNode" -> BranchesOf(node.subnode)
      [] OTHER -> {}

NonEmptyChildren(branch) ==
    Cardinality({i \in 1..16 : branch.subnodes[i] # Null})

\* The keys of obj all go on after the level, with the same nibble.
SharePrefix(obj, level) ==
    \E nibble \in 0..15 :
        \A key \in DOMAIN obj : Len(key) > level /\ key[level + 1] = nibble

\* C13: every Branch of the tree patricialize returns has at least 2
\* non-empty children, or a value and at least 1 non-empty child; and every
\* call, at its level, returns a Leaf for a map of exactly one entry and an
\* Extension for a map of 2 or more entries whose keys share a non-empty
\* prefix.
C13_Canonical ==
    call.fn = "patricialize" =>
        /\ call.returned =>
               \A branch \in BranchesOf(call.ret) :
                   \/ NonEmptyChildren(branch) >= 2
                   \/ branch.value # <<>> /\ NonEmptyChildren(branch) >= 1
        /\ call.made # <<>> =>
               /\ Cardinality(DOMAIN call.made.obj) = 1 =>
                      call.made.node = "LeafNode"
               /\ Cardinality(DOMAIN call.made.obj) >= 2
                      /\ SharePrefix(call.made.obj, call.made.level) =>
                      call.made.node = "ExtensionNode"

\* An Extension over a Branch that holds a value has been returned.
C13_Witness ==
    /\ call.fn = "patricialize"
    /\ call.returned
    /\ call.ret.kind = "ExtensionNode"
    /\ call.ret.subnode.kind = "BranchNode"
    /\ call.ret.subnode.value # <<>>

\* The length of the longest key of the map, 0 for the empty map.
MaxLenOf(obj) == SetMax({0} \cup {Len(key) : key \in DOMAIN obj})

\* A call made by a call has a strictly greater level than its caller.
LevelGrows ==
    call.fn = "patricialize" /\ call'.fn = "patricialize"
        /\ call.stack # <<>> =>
        \A i \in 1..(Len(call'.stack) - Len(call.stack) + 1) :
            call'.stack[i].level > Head(call.stack).level

\* C14: patricialize terminates: once entered, it comes to have no call left
\* to make; each recursive call has a strictly greater level than its caller,
\* over keys that are all at least as long as that level; and no call is
\* deeper in the recursion than the length of the longest key plus one.
C14_Terminates ==
    /\ [](call.fn = "patricialize" =>
              \A i \in 1..Len(call.stack) :
                  /\ \A key \in DOMAIN call.stack[i].obj :
                         Len(key) >= call.stack[i].level
                  /\ call.stack[i].depth <= MaxLenOf(call.args.obj) + 1)
    /\ [][LevelGrows]_vars
    /\ (call.fn = "patricialize" ~>
            call.fn = "patricialize" /\ call.stack = <<>>)

\* A call is to be made at the greatest depth the longest key allows, below
\* an Extension and a Branch.
C14_Witness ==
    /\ call.fn = "patricialize"
    /\ call.stack # <<>>
    /\ Head(call.stack).depth = MaxLenOf(call.args.obj) + 1
    /\ Head(call.stack).depth >= 3
    /\ DOMAIN Head(call.stack).obj # {}


-----------------------------------------------------------------------------
(* The compact encoding tells its inputs apart.                            *)

\* C15: nibble_list_to_compact gives different bytes for different inputs:
\* whatever other nibble list and flag it is applied to, differing from the
\* ones of the call in the flag, in the parity of the length or in the
\* nibbles, the result differs from the result of the call.
C15_CompactInjective ==
    call.fn = "nibble_list_to_compact" =>
        \A y \in NibbleLists, is_leaf \in BOOLEAN :
            y # call.args.x \/ is_leaf # call.args.is_leaf =>
                nibble_list_to_compact(y, is_leaf) # call.ret

\* An odd-length key has been compacted to as many bytes as the even-length
\* key one nibble shorter, and to the same bytes after the first.
C15_Witness ==
    /\ call.fn = "nibble_list_to_compact"
    /\ Len(call.args.x) % 2 = 1
    /\ Len(call.args.x) >= 3
    /\ \E is_leaf \in BOOLEAN :
           Tail(nibble_list_to_compact(Tail(call.args.x), is_leaf))
               = Tail(call.ret)

=============================================================================
